---- MODULE Spec2Model ----
(***************************************************************************)
(* State-history plugin of a blockchain node: the history log, the block   *)
(* ingestor with its transaction trace buffer and state-delta extractor,   *)
(* and the websocket session protocol.                                     *)
(*                                                                         *)
(* Source: src/plugins/state_history_plugin/state_history_plugin.cpp.      *)
(* history_log (history_log.hpp) and table_delta (state_history_plugin.hpp)*)
(* are not part of the source tree at hand; they follow the written        *)
(* specification (sections 3 and 4.1).                                     *)
(***************************************************************************)
EXTENDS Integers, Sequences, FiniteSets, TLC

VARIABLES
    log,              \* a history_log on its own (unit-level specification)
    block_state_log,  \* state_history_plugin_impl::block_state_log
    trace_log,        \* state_history_plugin_impl::trace_log
    chain_state_log,  \* state_history_plugin_impl::chain_state_log
    traces,           \* state_history_plugin_impl::traces (transaction trace buffer)
    db,               \* the chain database (chain_plug->chain().db()): tables and top undo frame
    written,          \* history: per log, the bytes the ingestor wrote last for each block
    head_num,         \* number of the block the chain accepted last (0: none yet)
    sess,             \* the session object (fields of struct session, socket, pending operations)
    sessions,         \* state_history_plugin_impl::sessions (registry)
    stopping,         \* state_history_plugin_impl::stopping
    acceptor,         \* the acceptor's outstanding async_accept
    wire,             \* history: the frames handed to async_write, in order, with their mode
    crashed,          \* the process was terminated by undefined behaviour
    op                \* history: the operation the last step executed, with inputs and outcome

vars == <<log, block_state_log, trace_log, chain_state_log, traces, db, written, head_num,
          sess, sessions, stopping, acceptor, wire, crashed, op>>

(***************************************************************************)
(* Bounds                                                                  *)
(***************************************************************************)
MaxBlockNum == 3         \* the block numbers written to the log on its own: 1..MaxBlockNum

MaxAcceptedBlockNum == 2 \* the block numbers the chain accepts: 1..MaxAcceptedBlockNum

MaxTouched == 2          \* at most this many tables of the chain database hold anything

MaxRequests == 3         \* a client sends at most this many request frames

BlockNums == 1..MaxBlockNum

AcceptedBlockNums == 1..MaxAcceptedBlockNum

(***************************************************************************)
(* fc::optional<bytes>                                                     *)
(***************************************************************************)
Absent == [present |-> FALSE, value |-> <<>>]

Some(v) == [present |-> TRUE, value |-> v]

(***************************************************************************)
(* HistoryLog (specification section 4.1)                                  *)
(***************************************************************************)
\* the empty log: begin_block == end_block == 0
EmptyLog == [begin |-> 0, entries |-> <<>>]

begin_block(l) == l.begin

\* end_block = begin_block + record_count
end_block(l) == l.begin + Len(l.entries)

\* n is in [begin_block, end_block)
in_range(l, n) == begin_block(l) <= n /\ n < end_block(l)

\* the index record of block n: record K = n - begin_block
index_record(l, n) == l.entries[n - l.begin + 1]

\* get_entry(block_num): the header, and the stream positioned just after it
get_entry(l, n) == [header |-> index_record(l, n).header, stream |-> index_record(l, n).payload]

\* a walk that goes one block down without looking at the stored block_id
walk_down_one_step(l, N, previous_id) == IF N = l.begin THEN N ELSE N - 1

\* walk N downward until N == begin_block or the stored block N-1 has block_id == previous_id
RECURSIVE walk_down(_, _, _)
walk_down(l, N, previous_id) ==
    IF N = l.begin \/ index_record(l, N - 1).header.block_id = previous_id
    THEN N
    ELSE walk_down(l, N - 1, previous_id)

\* truncate both files so that end_block = N; a log left without records is reset to empty
truncate(l, N) ==
    IF N <= l.begin
    THEN EmptyLog
    ELSE [begin |-> l.begin, entries |-> SubSeq(l.entries, 1, N - l.begin)]

\* write the header and the payload at the end of the data file, append the index record
append_entry(l, header, payload) ==
    [begin   |-> IF l.entries = <<>> THEN header.block_num ELSE l.begin,
     entries |-> Append(l.entries, [header |-> header, payload |-> payload])]

\* write_entry without the truncation of a reorg overwrite
write_entry_no_truncate(l, header, previous_id, payload) ==
    IF l.entries = <<>>
    THEN [ok |-> TRUE, err |-> "none", log |-> append_entry(l, header, payload)]
    ELSE IF header.block_num > end_block(l)
    THEN [ok |-> FALSE, err |-> "gap", log |-> l]
    ELSE IF header.block_num < begin_block(l)
    THEN [ok |-> FALSE, err |-> "underflow", log |-> l]
    ELSE [ok |-> TRUE, err |-> "none", log |-> append_entry(l, header, payload)]

\* write_entry that truncates or appends where it should fail with gap or underflow
write_entry_no_range_check(l, header, previous_id, payload) ==
    IF l.entries = <<>>
    THEN [ok |-> TRUE, err |-> "none", log |-> append_entry(l, header, payload)]
    ELSE IF header.block_num > end_block(l)
    THEN [ok |-> FALSE, err |-> "gap", log |-> append_entry(l, header, payload)]
    ELSE IF header.block_num < begin_block(l)
    THEN [ok |-> FALSE, err |-> "underflow",
          log |-> append_entry(truncate(l, header.block_num), header, payload)]
    ELSE LET N      == header.block_num
             forked == N > l.begin /\ index_record(l, N - 1).header.block_id # previous_id
             target == IF forked THEN walk_down(l, N, previous_id) ELSE N
         IN  [ok |-> TRUE, err |-> "none",
              log |-> append_entry(truncate(l, target), header, payload)]

\* write_entry(header, previous_id, payload_writer); payload is what payload_writer streams
write_entry(l, header, previous_id, payload) ==
    IF l.entries = <<>>
    THEN [ok |-> TRUE, err |-> "none", log |-> append_entry(l, header, payload)]
    ELSE IF header.block_num > end_block(l)
    THEN [ok |-> FALSE, err |-> "gap", log |-> l]
    ELSE IF header.block_num < begin_block(l)
    THEN [ok |-> FALSE, err |-> "underflow", log |-> l]
    ELSE LET N      == header.block_num
             forked == N > l.begin /\ index_record(l, N - 1).header.block_id # previous_id
             target == IF forked THEN walk_down(l, N, previous_id) ELSE N
         IN  [ok |-> TRUE, err |-> "none",
              log |-> append_entry(truncate(l, target), header, payload)]

(***************************************************************************)
(* The payload of the trace log and of the chain-state log: a u32 size,    *)
(* then the bytes (lines 285-290, 378-383)                                 *)
(***************************************************************************)
\* the payload_writer lambda: stream.write(&s, 4); stream.write(bin.data(), bin.size()).
\* s = (uint32_t)bin.size() is bin.size() itself: the EOS_ASSERT before it (lines 280, 374)
\* lets no size of 2^32 or more through, and no sequence of the model is that long.
payload_writer(bin) == <<Len(bin)>> \o bin

\* a get_data that takes the s bytes without having consumed the u32 s
get_data_from_size(l, block_num) ==
    IF block_num < begin_block(l) \/ block_num >= end_block(l)
    THEN Absent
    ELSE LET stream == get_entry(l, block_num).stream
             s      == Head(stream)
         IN  Some(SubSeq(stream, 1, s))

\* get_data (lines 55-66): absent outside [begin_block, end_block), else the s bytes after
\* the u32 s
get_data(l, block_num) ==
    IF block_num < begin_block(l) \/ block_num >= end_block(l)
    THEN Absent
    ELSE LET stream == get_entry(l, block_num).stream
             s      == Head(stream)
         IN  Some(SubSeq(Tail(stream), 1, s))

(***************************************************************************)
(* The chain database: sixteen tables, each with its live rows and the top *)
(* frame of its undo stack (lines 298-350)                                 *)
(***************************************************************************)
\* process_table calls, in order (lines 352-371)
TableOrder ==
    << "account", "contract_table", "contract_row", "contract_index64",
       "contract_index128", "contract_index256", "contract_index_double",
       "contract_index_long_double", "global_property", "generated_transaction",
       "permission", "permission_link", "resource_limits", "resource_usage",
       "resource_limits_state", "resource_limits_config" >>

Tables == {TableOrder[i] : i \in 1..Len(TableOrder)}

\* the tables whose rows are packed by pack_contract_row (lines 355-360)
ContractTables ==
    {"contract_row", "contract_index64", "contract_index128", "contract_index256",
     "contract_index_double", "contract_index_long_double"}

\* a table: the ids of its live rows, and the ids in the three parts of its top undo frame
EmptyTable == [live |-> {}, old_values |-> {}, new_ids |-> {}, removed_values |-> {}]

EmptyDb == [t \in Tables |-> EmptyTable]

\* the live row with this id: modified in the top undo frame (v = 2) or not (v = 1)
live_row(tbl, id) == [id |-> id, t_id |-> 0, v |-> IF id \in tbl.old_values THEN 2 ELSE 1]

\* the value an undo frame captured for this id (the pre-image)
old_row(tbl, id) == [id |-> id, t_id |-> 0, v |-> 1]

\* iteration in id order (the primary index, and the frame's maps and sets, order by id)
RECURSIVE in_id_order(_)
in_id_order(S) ==
    IF S = {}
    THEN <<>>
    ELSE LET m == CHOOSE x \in S : \A y \in S : x <= y
         IN  <<m>> \o in_id_order(S \ {m})

\* a get_table_id that knows the live table ids only
get_table_id_live_only(d, tid) ==
    IF tid \in d["contract_table"].live
    THEN [found |-> TRUE, obj |-> [from |-> "live", row |-> live_row(d["contract_table"], tid)]]
    ELSE [found |-> FALSE, obj |-> [from |-> "none"]]

\* get_table_id (lines 306-314): the live table-id object, else the one removed in the
\* top undo frame of the table-id index; found = FALSE is the EOS_ASSERT failing
get_table_id(d, tid) ==
    IF tid \in d["contract_table"].live
    THEN [found |-> TRUE, obj |-> [from |-> "live", row |-> live_row(d["contract_table"], tid)]]
    ELSE IF tid \in d["contract_table"].removed_values
    THEN [found |-> TRUE, obj |-> [from |-> "removed", row |-> old_row(d["contract_table"], tid)]]
    ELSE [found |-> FALSE, obj |-> [from |-> "none"]]

\* pack_row (line 316) and pack_contract_row (lines 317-319)
pack_row(d, name, row) ==
    IF name \in ContractTables
    THEN [table |-> get_table_id(d, row.t_id).obj, row |-> row]
    ELSE [row |-> row]

\* table_delta::rows holds {present: bool, data: bytes}; the fresh branch passes the row id
\* as the first emplace_back argument (line 329), which converts to bool
row_id_as_present(id) == id # 0

\* the rows process_table packs for a table, in order, each with its first emplace_back argument
fresh_rows(tbl) ==
    LET ids == in_id_order(tbl.live)
    IN  [i \in 1..Len(ids) |-> [first |-> row_id_as_present(ids[i]), row |-> live_row(tbl, ids[i])]]

\* the undo branch with the removed rows in front
undo_rows_removed_first(tbl) ==
    LET olds == in_id_order(tbl.old_values)
        news == in_id_order(tbl.new_ids)
        rems == in_id_order(tbl.removed_values)
    IN  [i \in 1..Len(rems) |-> [first |-> FALSE, row |-> old_row(tbl, rems[i])]]
        \o [i \in 1..Len(olds) |-> [first |-> TRUE, row |-> live_row(tbl, olds[i])]]
        \o [i \in 1..Len(news) |-> [first |-> TRUE, row |-> live_row(tbl, news[i])]]

\* the undo branch (lines 339-348): modified rows, new rows, removed rows
undo_rows(tbl) ==
    LET olds == in_id_order(tbl.old_values)
        news == in_id_order(tbl.new_ids)
        rems == in_id_order(tbl.removed_values)
    IN  [i \in 1..Len(olds) |-> [first |-> TRUE, row |-> live_row(tbl, olds[i])]]
        \o [i \in 1..Len(news) |-> [first |-> TRUE, row |-> live_row(tbl, news[i])]]
        \o [i \in 1..Len(rems) |-> [first |-> FALSE, row |-> old_row(tbl, rems[i])]]

table_rows(tbl, fresh) == IF fresh THEN fresh_rows(tbl) ELSE undo_rows(tbl)

\* process_table (lines 321-350): no delta, or one
process_table(d, name, fresh) ==
    LET tbl  == d[name]
        rows == table_rows(tbl, fresh)
    IN  IF fresh /\ tbl.live = {}
        THEN <<>>
        ELSE IF ~fresh /\ tbl.old_values = {} /\ tbl.new_ids = {} /\ tbl.removed_values = {}
        THEN <<>>
        ELSE << [name |-> name,
                 rows |-> [i \in 1..Len(rows) |->
                              [present |-> rows[i].first,
                               data    |-> pack_row(d, name, rows[i].row)]]] >>

\* some row that pack_contract_row packs has a t_id that get_table_id cannot resolve
table_id_missing(d, fresh) ==
    \E name \in ContractTables :
        LET rows == table_rows(d[name], fresh)
        IN  /\ process_table(d, name, fresh) # <<>>
            /\ \E i \in 1..Len(rows) : ~get_table_id(d, rows[i].row.t_id).found

RECURSIVE all_deltas(_, _, _)
all_deltas(d, fresh, i) ==
    IF i > Len(TableOrder)
    THEN <<>>
    ELSE process_table(d, TableOrder[i], fresh) \o all_deltas(d, fresh, i + 1)

\* fc::raw::pack of a vector: the count, then the elements
pack_vector(v) == <<Len(v)>> \o v

header_of(block, bin) ==
    [block_num |-> block.block_num, block_id |-> block.id, payload_size |-> 4 + Len(bin)]

\* store_chain_state (lines 293-384)
store_chain_state(l, block, d) ==
    LET fresh      == begin_block(l) = end_block(l)
        deltas     == all_deltas(d, fresh, 1)
        deltas_bin == pack_vector(deltas)
        w          == write_entry(l, header_of(block, deltas_bin), block.previous,
                                  payload_writer(deltas_bin))
    IN  IF table_id_missing(d, fresh)
        THEN [ok |-> FALSE, err |-> "can not found table id", log |-> l,
              fresh |-> fresh, bin |-> <<>>]
        ELSE [ok |-> w.ok, err |-> w.err, log |-> w.log, fresh |-> fresh, bin |-> deltas_bin]

(***************************************************************************)
(* The transaction trace buffer and the block ingestor (lines 251-291)     *)
(***************************************************************************)
\* a store_traces that collects the traces last transaction first
collect_traces_reversed(buffer, trxs) ==
    LET kept == SelectSeq(trxs, LAMBDA id : id \in DOMAIN buffer /\ buffer[id].receipt)
    IN  [i \in 1..Len(kept) |-> buffer[kept[Len(kept) + 1 - i]]]

\* the traces store_traces collects: those of the block's transactions, in block order,
\* that the buffer holds with a receipt (lines 268-276)
RECURSIVE collect_traces(_, _)
collect_traces(buffer, trxs) ==
    IF trxs = <<>>
    THEN <<>>
    ELSE LET id == Head(trxs)
         IN  (IF id \notin DOMAIN buffer \/ ~buffer[id].receipt THEN <<>> ELSE <<buffer[id]>>)
             \o collect_traces(buffer, Tail(trxs))

\* a store_traces that erases only the traces of the block's transactions
cleared_only_block(buffer, trxs) ==
    [id \in DOMAIN buffer \ {trxs[i] : i \in 1..Len(trxs)} |-> buffer[id]]

\* what store_traces leaves in the buffer (line 277)
cleared(buffer, trxs) == <<>>

\* store_traces (lines 267-291)
store_traces(l, buffer, block) ==
    LET traces_bin == pack_vector(collect_traces(buffer, block.trxs))
        w          == write_entry(l, header_of(block, traces_bin), block.previous,
                                  payload_writer(traces_bin))
    IN  [ok |-> w.ok, err |-> w.err, log |-> w.log, bin |-> traces_bin,
         buffer |-> cleared(buffer, block.trxs)]

\* store_block_state (lines 263-265): a stub, the block-state log is not written
store_block_state(l, block) == [ok |-> TRUE, err |-> "none", log |-> l]

NothingWritten == [trace |-> <<>>, chain_state |-> <<>>]

\* history: remember the bytes written for a block
remember(w, num, bin) == [n \in DOMAIN w \cup {num} |-> IF n = num THEN bin ELSE w[n]]

\* on_applied_transaction (lines 251-254)
on_applied_transaction(p) ==
    /\ ~crashed
    /\ traces' = IF p.receipt
                 THEN [id \in DOMAIN traces \cup {p.id} |-> IF id = p.id THEN p ELSE traces[id]]
                 ELSE traces
    /\ op' = [name |-> "on_applied_transaction", trace |-> p]
    /\ UNCHANGED <<log, block_state_log, trace_log, chain_state_log, db, written, head_num,
                   sess, sessions, stopping, acceptor, wire, crashed>>

\* on_accepted_block (lines 256-261) with the chain database d: the three stores in turn;
\* an exception of one skips the rest
on_accepted_block(block, d) ==
    \E bs \in {store_block_state(block_state_log, block)},
       tr \in {store_traces(trace_log, traces, block)},
       cs \in {store_chain_state(chain_state_log, block, d)} :
        /\ ~crashed
        /\ block_state_log' = bs.log
        /\ traces' = tr.buffer
        /\ trace_log' = tr.log
        /\ chain_state_log' = IF tr.ok THEN cs.log ELSE chain_state_log
        /\ written' =
              [trace       |-> IF tr.ok
                               THEN remember(written.trace, block.block_num, tr.bin)
                               ELSE written.trace,
               chain_state |-> IF tr.ok /\ cs.ok
                               THEN remember(written.chain_state, block.block_num, cs.bin)
                               ELSE written.chain_state]
        /\ head_num' = block.block_num
        /\ op' = [name |-> "on_accepted_block", block_num |-> block.block_num,
                  trxs |-> block.trxs,
                  dropped |-> DOMAIN traces \ {block.trxs[i] : i \in 1..Len(block.trxs)} # {},
                  traces_err |-> tr.err,
                  chain_state_err |-> IF tr.ok THEN cs.err ELSE "not run",
                  fresh |-> cs.fresh]
        /\ UNCHANGED <<log, db, sess, sessions, stopping, acceptor, wire, crashed>>

(***************************************************************************)
(* Unit-level specification of one history log: any caller, any entries    *)
(***************************************************************************)
LogIds == {"A", "B", "C"}

LogBins == {<<"x">>}

InitOp == [name |-> "init"]

\* no connection was accepted yet: there is no session object
IdleSession ==
    [exists |-> FALSE, open |-> FALSE, binary |-> TRUE, sending |-> FALSE, sentAbi |-> FALSE,
     send_queue |-> <<>>, accept_op |-> "none", read_op |-> "none", write_op |-> "none",
     nread |-> 0, closes |-> 0]

InitLog ==
    /\ log = EmptyLog
    /\ block_state_log = EmptyLog
    /\ trace_log = EmptyLog
    /\ chain_state_log = EmptyLog
    /\ traces = <<>>
    /\ db = EmptyDb
    /\ written = NothingWritten
    /\ head_num = 0
    /\ sess = IdleSession
    /\ sessions = {}
    /\ stopping = FALSE
    /\ acceptor = "unopened"
    /\ wire = <<>>
    /\ crashed = FALSE
    /\ op = InitOp

LogWrite ==
    \E num \in BlockNums, id \in LogIds, prev \in LogIds, bin \in LogBins :
        LET header == [block_num |-> num, block_id |-> id, payload_size |-> 4 + Len(bin)]
            r      == write_entry(log, header, prev, payload_writer(bin))
        IN  /\ log' = r.log
            /\ op' = [name |-> "write_entry", header |-> header, previous_id |-> prev,
                      ok |-> r.ok, err |-> r.err,
                      begin_before |-> begin_block(log), end_before |-> end_block(log),
                      id_before  |-> IF in_range(log, num)
                                     THEN index_record(log, num).header.block_id ELSE "none",
                      parent_id  |-> IF in_range(log, num - 1)
                                     THEN index_record(log, num - 1).header.block_id ELSE "none"]
            /\ UNCHANGED <<block_state_log, trace_log, chain_state_log, traces, db, written,
                           head_num, sess, sessions, stopping, acceptor, wire, crashed>>

NextLog == LogWrite

SpecLog == InitLog /\ [][NextLog]_vars

(***************************************************************************)
(* Ingestion: the chain applies transactions and accepts blocks            *)
(***************************************************************************)
Forks == {"a", "b"}

TxIds == {"t1", "t2"}

\* a block: its id names the block, its previous names a block with the number before
BlocksWith(nums, forks, trxlists) ==
    {[block_num |-> n, id |-> <<n, t>>, previous |-> <<n - 1, pt>>, trxs |-> x] :
        n \in nums, t \in forks, pt \in forks, x \in trxlists}

\* the blocks and the traces of the ingestion runs: two forks, one transaction
Blocks == BlocksWith(AcceptedBlockNums, Forks, {<<>>, <<"t1">>})

Traces == [id : {"t1"}, receipt : BOOLEAN]

\* a database with the given tables in the given states, the others empty
db_with(T, f) == [t \in Tables |-> IF t \in T THEN f[t] ELSE EmptyTable]

Live0 == [live |-> {0}, old_values |-> {}, new_ids |-> {}, removed_values |-> {}]

New1 == [live |-> {0, 1}, old_values |-> {}, new_ids |-> {1}, removed_values |-> {}]

Mod1 == [live |-> {1}, old_values |-> {1}, new_ids |-> {}, removed_values |-> {}]

Rem0 == [live |-> {}, old_values |-> {}, new_ids |-> {}, removed_values |-> {0}]

Mix == [live |-> {0, 1}, old_values |-> {0}, new_ids |-> {1}, removed_values |-> {2}]

TableStates == {Live0, New1, Mod1, Rem0, Mix}

\* the databases of the ingestion runs: nothing at all, or two rows in account of which one
\* is new in the top undo frame
IngestDbs == {EmptyDb, db_with({"account"}, [t \in {"account"} |-> New1])}

InitIngest ==
    /\ log = EmptyLog
    /\ block_state_log = EmptyLog
    /\ trace_log = EmptyLog
    /\ chain_state_log = EmptyLog
    /\ traces = <<>>
    /\ db = EmptyDb
    /\ written = NothingWritten
    /\ head_num = 0
    /\ sess = IdleSession
    /\ sessions = {}
    /\ stopping = FALSE
    /\ acceptor = "unopened"
    /\ wire = <<>>
    /\ crashed = FALSE
    /\ op = InitOp

AppliedTransaction == \E p \in Traces : on_applied_transaction(p)

\* blocks are accepted in block order: never one beyond the successor of the head; the
\* chain database at that moment is any of IngestDbs
AcceptedBlock ==
    \E block \in Blocks, d \in IngestDbs :
        /\ head_num = 0 \/ block.block_num <= head_num + 1
        /\ on_accepted_block(block, d)

NextIngest == AppliedTransaction \/ AcceptedBlock

SpecIngest == InitIngest /\ [][NextIngest]_vars

(***************************************************************************)
(* The trace buffer on its own: transactions t1 and t2 are applied, with   *)
(* and without a receipt, and blocks hold them in either order             *)
(***************************************************************************)
TraceBlocks ==
    BlocksWith(AcceptedBlockNums, {"a"}, {<<>>, <<"t1">>, <<"t1", "t2">>, <<"t2", "t1">>})

AllTraces == [id : TxIds, receipt : BOOLEAN]

AppliedAnyTransaction == \E p \in AllTraces : on_applied_transaction(p)

AcceptedTraceBlock ==
    \E block \in TraceBlocks :
        /\ head_num = 0 \/ block.block_num <= head_num + 1
        /\ on_accepted_block(block, EmptyDb)

NextTraces == AppliedAnyTransaction \/ AcceptedTraceBlock

SpecTraces == InitIngest /\ [][NextTraces]_vars

(***************************************************************************)
(* The state-delta extractor on a given chain database: the first accepted *)
(* block finds the chain-state log empty (fresh), the next ones do not.    *)
(* A contract table may hold rows whose table id is in no table of the     *)
(* database: get_table_id then throws and store_chain_state writes nothing *)
(***************************************************************************)
\* the tables that hold anything: at most MaxTouched of the sixteen
TouchedTables == {T \in SUBSET Tables : Cardinality(T) <= MaxTouched}

DeltaBlocks == BlocksWith({1}, {"a"}, {<<>>})

InitDelta ==
    /\ log = EmptyLog
    /\ block_state_log = EmptyLog
    /\ trace_log = EmptyLog
    /\ chain_state_log = EmptyLog
    /\ traces = <<>>
    /\ \E T \in TouchedTables : \E f \in [T -> TableStates] : db = db_with(T, f)
    /\ written = NothingWritten
    /\ head_num = 0
    /\ sess = IdleSession
    /\ sessions = {}
    /\ stopping = FALSE
    /\ acceptor = "unopened"
    /\ wire = <<>>
    /\ crashed = FALSE
    /\ op = InitOp

AcceptedBlockOnDb == \E block \in DeltaBlocks : on_accepted_block(block, db)

NextDelta == AcceptedBlockOnDb

SpecDelta == InitDelta /\ [][NextDelta]_vars

(***************************************************************************)
(* The session (lines 73-206), the acceptor (lines 232-249) and shutdown   *)
(* (lines 445-451). An asynchronous operation is "pending" when it was     *)
(* issued on an open socket: it completes with or without an error, also   *)
(* after the socket was closed (it may have completed before). Issued on a *)
(* closed socket it is "doomed": it completes with an error.               *)
(***************************************************************************)
\* the id of the session in the registry
TheSession == 1

\* a frame of the send queue; req is the position of the request it answers among the
\* requests read (0 for the ABI)
Frame(kind, req, body) == [kind |-> kind, req |-> req, body |-> body]

NoBody ==
    [block_num |-> 0, block |-> Absent, block_state |-> Absent, traces |-> Absent,
     deltas |-> Absent, state_begin_block_num |-> 0, state_end_block_num |-> 0]

\* state_history_plugin_abi, sent as text
AbiFrame == Frame("abi", 0, NoBody)

\* the state a handler works on: the session, the registry and the frames written so far
issue(st) == IF st.s.open THEN "pending" ELSE "doomed"

\* session::start_read (lines 100-116): issue the next async_read
start_read(st) == [st EXCEPT !.s.read_op = issue(st)]

\* a send() that leaves sentAbi as it was
send_forgets_abi(st) ==
    IF st.s.sending \/ st.s.send_queue = <<>>
    THEN st
    ELSE [st EXCEPT !.s.sending  = TRUE,
                    !.s.binary   = st.s.sentAbi,
                    !.s.write_op = issue(st),
                    !.wire       = Append(@, [frame  |-> Head(st.s.send_queue),
                                              binary |-> st.s.sentAbi])]

\* a send() that does not look at the sending flag
send_while_sending(st) ==
    IF st.s.send_queue = <<>>
    THEN st
    ELSE [st EXCEPT !.s.sending  = TRUE,
                    !.s.binary   = st.s.sentAbi,
                    !.s.sentAbi  = TRUE,
                    !.s.write_op = issue(st),
                    !.wire       = Append(@, [frame  |-> Head(st.s.send_queue),
                                              binary |-> st.s.sentAbi])]

\* session::send() (lines 129-146)
send(st) ==
    IF st.s.sending \/ st.s.send_queue = <<>>
    THEN st
    ELSE [st EXCEPT !.s.sending  = TRUE,
                    !.s.binary   = st.s.sentAbi,
                    !.s.sentAbi  = TRUE,
                    !.s.write_op = issue(st),
                    !.wire       = Append(@, [frame  |-> Head(st.s.send_queue),
                                              binary |-> st.s.sentAbi])]

\* a send(T) that puts the frame at the front of the queue
send_frame_in_front(st, frame) == send([st EXCEPT !.s.send_queue = <<frame>> \o @])

\* session::send(const char*) and session::send(T) (lines 118-127)
send_frame(st, frame) == send([st EXCEPT !.s.send_queue = Append(@, frame)])

\* session::close (lines 202-205)
close(st) ==
    [st EXCEPT !.s.open = FALSE, !.s.closes = @ + 1, !.sessions = @ \ {TheSession}]

\* session::on_fail (lines 193-200)
on_fail(st) == close(st)

\* get_status_request_v0 (lines 149-157)
get_status_result(st) ==
    Frame("get_status_result_v0", st.s.nread,
          [NoBody EXCEPT !.state_begin_block_num = begin_block(chain_state_log),
                         !.state_end_block_num   = end_block(chain_state_log)])

\* state_history_plugin_impl::get_block (lines 68-71) for a block the chain holds
get_block(block_num) == Some(<<"block", block_num>>)

\* get_block_request_v0 (lines 159-168); block is what plugin->get_block left in result.block
get_block_result(st, block_num, block) ==
    Frame("get_block_result_v0", st.s.nread,
          [NoBody EXCEPT !.block_num   = block_num,
                         !.block       = block,
                         !.block_state = get_data(block_state_log, block_num),
                         !.traces      = get_data(trace_log, block_num),
                         !.deltas      = get_data(chain_state_log, block_num)])

\* a new session object after session::start (lines 83-98): the handshake is outstanding
StartedSession ==
    [IdleSession EXCEPT !.exists = TRUE, !.open = TRUE, !.binary = TRUE,
                        !.accept_op = "pending"]

Requests ==
    {[type |-> "get_status_request_v0", block_num |-> 0], [type |-> "malformed", block_num |-> 0]}
    \cup {[type |-> "get_block_request_v0", block_num |-> n] : n \in 1..2}

\* what dereferencing the null block pointer (line 70) can do: end the process, or go on
\* with bytes that are no block
NullDereference == {"crash", "garbage"}

Now == [s |-> sess, sessions |-> sessions, wire |-> wire]

Commit(st) ==
    /\ sess' = st.s
    /\ sessions' = st.sessions
    /\ wire' = st.wire

\* state_history_plugin::plugin_startup (line 443): listen() ends in do_accept()
plugin_startup ==
    /\ ~crashed
    /\ acceptor = "unopened"
    /\ acceptor' = "pending"
    /\ op' = [name |-> "plugin_startup"]
    /\ UNCHANGED <<log, block_state_log, trace_log, chain_state_log, traces, db, written,
                   head_num, sess, sessions, stopping, wire, crashed>>

\* the completion of the acceptor's async_accept (lines 234-248); one client connects
do_accept_completes(ec) ==
    /\ ~crashed
    /\ acceptor = "pending"
    /\ ec = "ok" => ~sess.exists
    /\ op' = [name |-> "async_accept", ec |-> ec, stopping |-> stopping]
    /\ IF stopping
       THEN /\ acceptor' = "stopped"
            /\ UNCHANGED <<sess, sessions>>
       ELSE IF ec # "ok"
       THEN /\ acceptor' = IF ec = "too_many_files_open" THEN "pending" ELSE "stopped"
            /\ UNCHANGED <<sess, sessions>>
       ELSE /\ sess' = StartedSession
            /\ sessions' = sessions \cup {TheSession}
            /\ acceptor' = "pending"
    /\ UNCHANGED <<log, block_state_log, trace_log, chain_state_log, traces, db, written,
                   head_num, stopping, wire, crashed>>

\* the completion of the websocket handshake (lines 90-97)
handshake_completes(ec) ==
    /\ ~crashed
    /\ sess.accept_op # "none"
    /\ ec = "ok" => sess.accept_op = "pending"
    /\ op' = [name |-> "handshake", ec |-> ec, stopping |-> stopping]
    /\ LET st == [Now EXCEPT !.s.accept_op = "none"]
       IN  IF stopping
           THEN Commit(st)
           ELSE IF ec # "ok"
           THEN Commit(on_fail(st))
           ELSE Commit(send_frame(start_read(st), AbiFrame))
    /\ UNCHANGED <<log, block_state_log, trace_log, chain_state_log, traces, db, written,
                   head_num, stopping, acceptor, crashed>>

\* the completion of an async_read (lines 103-115) with the frame req; held: the chain holds
\* the block a get_block_request_v0 asks for; ub: what line 70 does when it does not
async_read_completes(ec, req, held, ub) ==
    /\ ~crashed
    /\ sess.read_op # "none"
    /\ ec = "ok" => sess.read_op = "pending" /\ sess.nread < MaxRequests
    /\ LET st == [Now EXCEPT !.s.read_op = "none"]
           rd == [st EXCEPT !.s.nread = @ + 1]
           dies == ~stopping /\ ec = "ok" /\ req.type = "get_block_request_v0"
                   /\ ~held /\ ub = "crash"
       IN  /\ op' = [name |-> "async_read", ec |-> ec, stopping |-> stopping, req |-> req,
                     held |-> held, open |-> sess.open]
           /\ crashed' = dies
           /\ IF stopping
              THEN Commit(st)
              ELSE IF ec # "ok"
              THEN Commit(on_fail(st))
              ELSE IF req.type = "malformed"
              THEN Commit(close(rd))
              ELSE IF req.type = "get_status_request_v0"
              THEN Commit(start_read(send_frame(rd, get_status_result(rd))))
              ELSE IF held
              THEN Commit(start_read(send_frame(rd,
                       get_block_result(rd, req.block_num, get_block(req.block_num)))))
              ELSE IF ub = "crash"
              THEN Commit(rd)
              ELSE Commit(start_read(send_frame(rd,
                       get_block_result(rd, req.block_num, Some(<<"garbage">>)))))
    /\ UNCHANGED <<log, block_state_log, trace_log, chain_state_log, traces, db, written,
                   head_num, stopping, acceptor>>

\* a write completion that does not consult the stopping flag
async_write_completes_unguarded(ec) ==
    /\ ~crashed
    /\ sess.write_op # "none"
    /\ ec = "ok" => sess.write_op = "pending"
    /\ op' = [name |-> "async_write", ec |-> ec, stopping |-> stopping]
    /\ LET st == [Now EXCEPT !.s.write_op = "none"]
       IN  IF ec # "ok"
           THEN Commit(on_fail(st))
           ELSE Commit(send([st EXCEPT !.s.send_queue = Tail(@), !.s.sending = FALSE]))
    /\ UNCHANGED <<log, block_state_log, trace_log, chain_state_log, traces, db, written,
                   head_num, stopping, acceptor, crashed>>

\* the completion of an async_write (lines 137-145)
async_write_completes(ec) ==
    /\ ~crashed
    /\ sess.write_op # "none"
    /\ ec = "ok" => sess.write_op = "pending"
    /\ op' = [name |-> "async_write", ec |-> ec, stopping |-> stopping]
    /\ LET st == [Now EXCEPT !.s.write_op = "none"]
       IN  IF stopping
           THEN Commit(st)
           ELSE IF ec # "ok"
           THEN Commit(on_fail(st))
           ELSE Commit(send([st EXCEPT !.s.send_queue = Tail(@), !.s.sending = FALSE]))
    /\ UNCHANGED <<log, block_state_log, trace_log, chain_state_log, traces, db, written,
                   head_num, stopping, acceptor, crashed>>

\* state_history_plugin::plugin_shutdown (lines 445-451)
plugin_shutdown ==
    /\ ~crashed
    /\ ~stopping
    /\ op' = [name |-> "plugin_shutdown"]
    /\ Commit(IF TheSession \in sessions THEN close(Now) ELSE Now)
    /\ stopping' = TRUE
    /\ UNCHANGED <<log, block_state_log, trace_log, chain_state_log, traces, db, written,
                   head_num, acceptor, crashed>>

ErrorCodes == {"ok", "error"}

AcceptCompletes == \E ec \in {"ok", "too_many_files_open", "error"} : do_accept_completes(ec)

HandshakeCompletes == \E ec \in ErrorCodes : handshake_completes(ec)

ReadCompletes ==
    \E ec \in ErrorCodes, req \in Requests, held \in BOOLEAN, ub \in NullDereference :
        async_read_completes(ec, req, held, ub)

WriteCompletes == \E ec \in ErrorCodes : async_write_completes(ec)

InitSession ==
    /\ log = EmptyLog
    /\ block_state_log = EmptyLog
    /\ trace_log = EmptyLog
    /\ chain_state_log = EmptyLog
    /\ traces = <<>>
    /\ db = EmptyDb
    /\ written = NothingWritten
    /\ head_num = 0
    /\ sess = IdleSession
    /\ sessions = {}
    /\ stopping = FALSE
    /\ acceptor = "unopened"
    /\ wire = <<>>
    /\ crashed = FALSE
    /\ op = InitOp

NextSession ==
    \/ plugin_startup
    \/ AcceptCompletes
    \/ HandshakeCompletes
    \/ ReadCompletes
    \/ WriteCompletes
    \/ plugin_shutdown

SpecSession == InitSession /\ [][NextSession]_vars

(***************************************************************************)
(* C1 (S1, P6): within a session, the frames handed to async_write after   *)
(* the ABI frame are the responses to the requests in the order the        *)
(* requests were read: the k-th of them answers the k-th request, none is  *)
(* reordered, duplicated or written before the response to an earlier      *)
(* request.                                                                *)
(***************************************************************************)
C1_ResponseOrder ==
    \A i \in 2..Len(wire) :
        /\ wire[i].frame.kind # "abi"
        /\ wire[i].frame.req = i - 1

\* three requests were read and answered while writes were outstanding: the third response
\* was handed to async_write, after having waited in the queue behind the second
C1_Witness ==
    /\ Len(wire) = 4
    /\ sess.nread = 3
    /\ op.name = "async_write"
    /\ Len(sess.send_queue) = 1

(***************************************************************************)
(* C7: the first frame a session writes is the ABI frame, in text mode;    *)
(* every later frame is written in binary mode and is no ABI frame.        *)
(***************************************************************************)
C7_AbiTextThenBinary ==
    \A i \in 1..Len(wire) :
        IF i = 1
        THEN wire[i].frame = AbiFrame /\ ~wire[i].binary
        ELSE wire[i].frame.kind # "abi" /\ wire[i].binary

\* a response was read and queued while the write of the ABI frame was outstanding, and
\* was written next
C7_Witness ==
    /\ Len(wire) = 2
    /\ op.name = "async_write"
    /\ sess.binary
    /\ sess.nread >= 2

(***************************************************************************)
(* C8: a GetBlock(block_num) request for a block the chain block store     *)
(* does not hold is answered with a get_block_result whose block field is  *)
(* absent; the handler does not fail and the session stays open.           *)
(***************************************************************************)
C8_MissingBlockAnswered ==
    (/\ op.name = "async_read"
     /\ op.ec = "ok"
     /\ ~op.stopping
     /\ op.req.type = "get_block_request_v0"
     /\ ~op.held)
    =>
        /\ ~crashed
        /\ sess.open = op.open
        /\ sess.send_queue # <<>>
        /\ LET last == sess.send_queue[Len(sess.send_queue)]
           IN  /\ last.kind = "get_block_result_v0"
               /\ last.req = sess.nread
               /\ last.body.block_num = op.req.block_num
               /\ ~last.body.block.present

(***************************************************************************)
(* C2 (L1, P1): after any sequence of successful write_entry calls, index  *)
(* record K describes block begin_block + K: for every n in                *)
(* [begin_block, end_block), get_entry(n) returns a header with            *)
(* block_num = n.                                                          *)
(***************************************************************************)
C2_Contiguous ==
    \A n \in begin_block(log) .. end_block(log) - 1 :
        get_entry(log, n).header.block_num = n

(***************************************************************************)
(* C3 (P3): a write_entry for a block b that the log holds, whose          *)
(* previous_id equals the stored block_id of b - 1 (or b = begin_block),   *)
(* leaves end_block = b + 1, get_entry(b) returns the new block_id, and    *)
(* no block above b is retrievable any more.                               *)
(***************************************************************************)
\* the write was for a block the log held, with a previous_id that is the block_id stored
\* for the block before it (or for the block at begin_block)
IsOverwrite(o) ==
    /\ o.name = "write_entry"
    /\ o.begin_before <= o.header.block_num
    /\ o.header.block_num < o.end_before
    /\ \/ o.header.block_num = o.begin_before
       \/ o.parent_id = o.previous_id

C3_ReorgOverwrite ==
    IsOverwrite(op) =>
        /\ op.ok
        /\ end_block(log) = op.header.block_num + 1
        /\ get_entry(log, op.header.block_num).header.block_id = op.header.block_id
        /\ \A n \in op.header.block_num + 1 .. op.end_before - 1 : ~get_data(log, n).present

\* a block in the middle of the log was overwritten with another block_id, and the block
\* above it was cut off
C3_Witness ==
    /\ IsOverwrite(op)
    /\ op.header.block_num > op.begin_before
    /\ op.header.block_num + 1 < op.end_before
    /\ op.header.block_id # op.id_before

(***************************************************************************)
(* C4 (L4): once ingestion is running, the block-state log, the trace log  *)
(* and the chain-state log have the same [begin_block, end_block).         *)
(***************************************************************************)
same_range(l1, l2) == begin_block(l1) = begin_block(l2) /\ end_block(l1) = end_block(l2)

C4_ThreeLogsAligned ==
    head_num # 0 =>
        /\ same_range(block_state_log, trace_log)
        /\ same_range(trace_log, chain_state_log)

(***************************************************************************)
(* C5 (P5): after any number of on_accepted_block calls, also calls in     *)
(* which a store fails with an exception, the trace log and the            *)
(* chain-state log have equal begin_block and equal end_block.             *)
(***************************************************************************)
C5_TraceAndChainStateAligned == same_range(trace_log, chain_state_log)

(***************************************************************************)
(* C6 (T1, P4): whenever on_accepted_block finishes, the transaction trace *)
(* buffer is empty, whatever was applied before and whether or not a store *)
(* threw.                                                                  *)
(***************************************************************************)
C6_BufferEmptyAfterBlock == op.name = "on_accepted_block" => DOMAIN traces = {}

\* a block was accepted while the buffer held the trace of a transaction that is not in
\* the block, and store_traces threw on the write
C6_Witness ==
    /\ op.name = "on_accepted_block"
    /\ op.dropped
    /\ op.traces_err = "underflow"

(***************************************************************************)
(* C9 (P2): for every block number n and each of the three logs, get_data  *)
(* yields nothing if and only if n is outside the log's                    *)
(* [begin_block, end_block); what it yields is exactly the bytes the       *)
(* ingestor wrote last for block n (after the u32 size), also after a      *)
(* reorg rewrote block n.                                                  *)
(***************************************************************************)
round_trip(l, w, n) ==
    /\ get_data(l, n).present <=> in_range(l, n)
    /\ get_data(l, n).present => n \in DOMAIN w /\ get_data(l, n).value = w[n]

C9_GetDataRoundTrip ==
    \A n \in 0 .. MaxAcceptedBlockNum + 1 :
        /\ round_trip(block_state_log, <<>>, n)
        /\ round_trip(trace_log, written.trace, n)
        /\ round_trip(chain_state_log, written.chain_state, n)

\* block 1 was rewritten by a reorg that cut block 2 off; both logs yield for block 1 the
\* bytes written last, a trace and a delta among them
C9_Witness ==
    /\ op.name = "on_accepted_block"
    /\ op.block_num = 1
    /\ 2 \in DOMAIN written.trace
    /\ begin_block(trace_log) = 1 /\ end_block(trace_log) = 2
    /\ begin_block(chain_state_log) = 1 /\ end_block(chain_state_log) = 2
    /\ Len(get_data(trace_log, 1).value) = 2
    /\ Len(get_data(chain_state_log, 1).value) = 2

(***************************************************************************)
(* C10: when the chain-state log is empty (fresh), store_chain_state emits *)
(* exactly one delta for each non-empty table, in the declared table       *)
(* order, whose rows are every live row of the table, each with            *)
(* present = true (row id 0 included); empty tables produce no delta.      *)
(***************************************************************************)
expected_fresh_delta(d, name) ==
    LET ids == in_id_order(d[name].live)
    IN  [name |-> name,
         rows |-> [i \in 1..Len(ids) |->
                      [present |-> TRUE, data |-> pack_row(d, name, live_row(d[name], ids[i]))]]]

expected_fresh_deltas(d) ==
    LET nonempty == SelectSeq(TableOrder, LAMBDA t : d[t].live # {})
    IN  [i \in 1..Len(nonempty) |-> expected_fresh_delta(d, nonempty[i])]

C10_FreshSnapshot ==
    (op.name = "on_accepted_block" /\ op.fresh /\ op.chain_state_err = "none") =>
        get_data(chain_state_log, op.block_num).value = pack_vector(expected_fresh_deltas(db))

(***************************************************************************)
(* C11: on a non-empty log, write_entry with header.block_num > end_block  *)
(* fails with gap and write_entry with header.block_num < begin_block      *)
(* fails with underflow; in both cases begin_block, end_block and every    *)
(* stored entry are unchanged.                                             *)
(***************************************************************************)
WriteOutOfRange ==
    /\ op'.name = "write_entry"
    /\ log.entries # <<>>
    /\ \/ op'.header.block_num > end_block(log)
       \/ op'.header.block_num < begin_block(log)

C11_GapAndUnderflowStep ==
    WriteOutOfRange =>
        /\ ~op'.ok
        /\ op'.err = IF op'.header.block_num > end_block(log) THEN "gap" ELSE "underflow"
        /\ begin_block(log') = begin_block(log)
        /\ end_block(log') = end_block(log)
        /\ log'.entries = log.entries

C11_GapAndUnderflow == [][C11_GapAndUnderflowStep]_vars

\* a write below begin_block was refused on a log of two entries that begins at block 2
C11_Witness ==
    /\ op.name = "write_entry"
    /\ op.err = "underflow"
    /\ op.header.block_num = 1
    /\ begin_block(log) = 2
    /\ end_block(log) = 4

(***************************************************************************)
(* C13: once the first entry has been written to a history log,            *)
(* begin_block never changes under any later sequence of write_entry       *)
(* calls, also a reorg whose truncation walks all the way down to          *)
(* begin_block, and end_block always equals begin_block plus the number of *)
(* index records.                                                          *)
(***************************************************************************)
C13_BeginBlockFixed ==
    /\ end_block(log) = begin_block(log) + Len(log.entries)
    /\ (op.name = "write_entry" /\ op.begin_before # op.end_before) =>
           begin_block(log) = op.begin_before

(***************************************************************************)
(* C15 (L3): when write_entry receives an entry whose previous_id differs  *)
(* from the stored block_id of block_num - 1, the log is truncated to the  *)
(* greatest N at which stored block N-1 has block_id == previous_id (or to *)
(* empty if there is none) and the new entry is appended; every surviving  *)
(* entry below the new one is an unmodified entry that was stored before,  *)
(* and the entry immediately preceding the new one, if any, has block_id   *)
(* equal to the new entry's previous_id.                                   *)
(***************************************************************************)
\* the write is for a block whose predecessor the log holds with another block_id
IsFork ==
    /\ op'.name = "write_entry"
    /\ in_range(log, op'.header.block_num - 1)
    /\ index_record(log, op'.header.block_num - 1).header.block_id # op'.previous_id

\* the block numbers N up to the written one at which stored block N-1 has previous_id
consistent_ends(l, num, previous_id) ==
    {N \in begin_block(l) + 1 .. num : index_record(l, N - 1).header.block_id = previous_id}

\* the number of entries that survive the truncation
surviving(l, num, previous_id) ==
    LET S == consistent_ends(l, num, previous_id)
    IN  IF S = {} THEN 0 ELSE (CHOOSE N \in S : \A M \in S : M <= N) - begin_block(l)

C15_ForkTruncationStep ==
    IsFork =>
        LET k == surviving(log, op'.header.block_num, op'.previous_id)
        IN  /\ op'.ok
            /\ Len(log'.entries) = k + 1
            /\ SubSeq(log'.entries, 1, k) = SubSeq(log.entries, 1, k)
            /\ log'.entries[k + 1].header = op'.header
            /\ k > 0 => /\ begin_block(log') = begin_block(log)
                        /\ log'.entries[k].header.block_id = op'.previous_id

C15_ForkTruncation == [][C15_ForkTruncationStep]_vars

\* a fork two blocks back: of three stored blocks the first survived, and the new entry
\* follows the entry whose block_id is its previous_id
C15_Witness ==
    /\ op.name = "write_entry"
    /\ op.ok
    /\ op.end_before - op.begin_before = 3
    /\ op.header.block_num = op.begin_before + 2
    /\ op.parent_id # "none"
    /\ op.parent_id # op.previous_id
    /\ Len(log.entries) = 2
    /\ log.entries[1].header.block_id = op.previous_id

(***************************************************************************)
(* C12: after plugin_shutdown has set the stopping flag, every             *)
(* asynchronous completion that runs (accept, handshake, read, write),     *)
(* with or without an error code, returns without changing plugin or       *)
(* session state: the registry, the send queue, the sending and sentAbi    *)
(* flags, the logs and the trace buffer stay as they are, and no new       *)
(* asynchronous operation is issued.                                       *)
(***************************************************************************)
Completions == {"async_accept", "handshake", "async_read", "async_write"}

\* an operation is outstanding after the step only if it was before
none_issued(before, after) == after = "none" \/ after = before

C12_StoppedCompletionStep ==
    (stopping /\ op'.name \in Completions) =>
        /\ sessions' = sessions
        /\ sess'.exists = sess.exists
        /\ sess'.open = sess.open
        /\ sess'.closes = sess.closes
        /\ sess'.nread = sess.nread
        /\ sess'.send_queue = sess.send_queue
        /\ sess'.sending = sess.sending
        /\ sess'.sentAbi = sess.sentAbi
        /\ sess'.binary = sess.binary
        /\ wire' = wire
        /\ none_issued(sess.accept_op, sess'.accept_op)
        /\ none_issued(sess.read_op, sess'.read_op)
        /\ none_issued(sess.write_op, sess'.write_op)
        /\ acceptor' = acceptor \/ acceptor' = "stopped"
        /\ UNCHANGED <<block_state_log, trace_log, chain_state_log, traces>>

C12_StoppedCompletion == [][C12_StoppedCompletionStep]_vars

\* after shutdown a write completed without an error while a second frame waited in the
\* queue: the queue and the sending flag are as they were
C12_Witness ==
    /\ stopping
    /\ op.name = "async_write"
    /\ op.stopping
    /\ op.ec = "ok"
    /\ Len(sess.send_queue) >= 2
    /\ sess.sending

(***************************************************************************)
(* C14: in a session at most one async_write is outstanding; a write is    *)
(* issued only when none is outstanding and the send queue is non-empty,   *)
(* it writes the queue head, and on successful completion exactly the head *)
(* is removed and the next write is issued if and only if the queue is     *)
(* still non-empty.                                                        *)
(***************************************************************************)
\* the step hands a frame to async_write
WriteIssued == wire' # wire

C14_OneWriteStep ==
    /\ sess.write_op # "none" => sess.sending
    /\ WriteIssued =>
           /\ Len(wire') = Len(wire) + 1
           /\ sess.write_op = "none" \/ op'.name = "async_write"
           /\ sess'.send_queue # <<>>
           /\ wire'[Len(wire')].frame = Head(sess'.send_queue)
           /\ sess'.write_op # "none"
           /\ sess'.sending
    /\ (op'.name = "async_write" /\ op'.ec = "ok" /\ ~op'.stopping) =>
           /\ sess.send_queue # <<>>
           /\ sess'.send_queue = Tail(sess.send_queue)
           /\ WriteIssued <=> sess'.send_queue # <<>>
           /\ ~WriteIssued => sess'.write_op = "none" /\ ~sess'.sending

C14_OneWrite == [][C14_OneWriteStep]_vars

\* the write of the third frame completed while a fourth waited in the queue: the fourth
\* was handed to async_write
C14_Witness ==
    /\ op.name = "async_write"
    /\ op.ec = "ok"
    /\ ~op.stopping
    /\ Len(wire) = 4
    /\ Len(sess.send_queue) = 1
    /\ sess.write_op = "pending"
    /\ sess.open

(***************************************************************************)
(* C19: any read, write, handshake, decode or handler error of a session   *)
(* translates to a single close(): over the whole life of a session        *)
(* close() is executed at most once, also when a read and a write are both *)
(* outstanding when the first error occurs.                                *)
(***************************************************************************)
C19_SingleClose == sess.closes <= 1

(***************************************************************************)
(* C20: once a session has executed close(), it never again issues a new   *)
(* async_read or async_write and never handles another request, whatever   *)
(* completions of operations that were outstanding or had completed are    *)
(* delivered afterwards.                                                   *)
(***************************************************************************)
C20_ClosedSessionStep ==
    sess.closes >= 1 =>
        /\ ~WriteIssued
        /\ sess'.nread = sess.nread
        /\ none_issued(sess.read_op, sess'.read_op)
        /\ none_issued(sess.write_op, sess'.write_op)
        /\ op'.name \in {"handshake", "async_read"} => sess'.read_op = "none"
        /\ op'.name = "async_write" => sess'.write_op = "none"

C20_ClosedSessionIsQuiet == [][C20_ClosedSessionStep]_vars

(***************************************************************************)
(* C16: when the chain-state log is non-empty (not fresh), for each table  *)
(* store_chain_state emits nothing if the top undo frame has no            *)
(* old_values, new_ids or removed_values, and otherwise exactly one delta  *)
(* whose rows are, in this order: the current live row with present = true *)
(* for each id in old_values, the current live row with present = true for *)
(* each id in new_ids, then the captured old value with present = false    *)
(* for each entry of removed_values.                                       *)
(***************************************************************************)
frame_is_empty(tbl) == tbl.old_values = {} /\ tbl.new_ids = {} /\ tbl.removed_values = {}

delta_row(d, name, present, row) == [present |-> present, data |-> pack_row(d, name, row)]

expected_undo_delta(d, name) ==
    LET tbl  == d[name]
        olds == in_id_order(tbl.old_values)
        news == in_id_order(tbl.new_ids)
        rems == in_id_order(tbl.removed_values)
    IN  [name |-> name,
         rows |-> [i \in 1..Len(olds) |-> delta_row(d, name, TRUE, live_row(tbl, olds[i]))]
                  \o [i \in 1..Len(news) |-> delta_row(d, name, TRUE, live_row(tbl, news[i]))]
                  \o [i \in 1..Len(rems) |-> delta_row(d, name, FALSE, old_row(tbl, rems[i]))]]

expected_undo_deltas(d) ==
    LET touched == SelectSeq(TableOrder, LAMBDA t : ~frame_is_empty(d[t]))
    IN  [i \in 1..Len(touched) |-> expected_undo_delta(d, touched[i])]

C16_UndoDelta ==
    (op.name = "on_accepted_block" /\ ~op.fresh /\ op.chain_state_err = "none") =>
        get_data(chain_state_log, op.block_num).value = pack_vector(expected_undo_deltas(db))

\* a block was stored on a non-empty chain-state log while the top undo frame of account
\* held a modified, a new and a removed row, and that of permission a modified row
C16_Witness ==
    /\ op.name = "on_accepted_block"
    /\ ~op.fresh
    /\ op.chain_state_err = "none"
    /\ db["account"] = Mix
    /\ db["permission"] = Mod1
    /\ Len(get_data(chain_state_log, op.block_num).value) = 3

(***************************************************************************)
(* C17: for every contract-scoped row (contract_row and the five           *)
(* contract_index tables) that store_chain_state packs, the row's t_id is  *)
(* resolved to the live table-id object if there is one, otherwise to the  *)
(* table-id object removed in the top undo frame; if there is neither,     *)
(* store_chain_state fails without writing an entry to the chain-state     *)
(* log.                                                                    *)
(***************************************************************************)
\* the contract-scoped rows store_chain_state packs
packed_contract_rows(d, fresh) ==
    UNION {IF fresh
           THEN {live_row(d[t], id) : id \in d[t].live}
           ELSE {live_row(d[t], id) : id \in d[t].old_values \cup d[t].new_ids}
                \cup {old_row(d[t], id) : id \in d[t].removed_values} : t \in ContractTables}

is_live_table_id(d, tid) == tid \in d["contract_table"].live

is_removed_table_id(d, tid) == tid \in d["contract_table"].removed_values

resolved_table_id(d, tid) ==
    IF is_live_table_id(d, tid)
    THEN [from |-> "live", row |-> live_row(d["contract_table"], tid)]
    ELSE [from |-> "removed", row |-> old_row(d["contract_table"], tid)]

\* the deltas of the entry of block n
stored_deltas(l, n) == Tail(get_data(l, n).value)

C17_TableIdStep ==
    (op'.name = "on_accepted_block" /\ op'.traces_err = "none") =>
        LET fresh  == begin_block(chain_state_log) = end_block(chain_state_log)
            packed == packed_contract_rows(db, fresh)
        IN  IF \E r \in packed : ~is_live_table_id(db, r.t_id) /\ ~is_removed_table_id(db, r.t_id)
            THEN /\ op'.chain_state_err = "can not found table id"
                 /\ chain_state_log' = chain_state_log
            ELSE /\ op'.chain_state_err = "none"
                 /\ LET deltas == stored_deltas(chain_state_log', op'.block_num)
                    IN  /\ \A i \in 1..Len(deltas) :
                              deltas[i].name \in ContractTables =>
                                  \A j \in 1..Len(deltas[i].rows) :
                                      LET data == deltas[i].rows[j].data
                                      IN  data.table = resolved_table_id(db, data.row.t_id)
                        /\ \A r \in packed :
                              \E i \in 1..Len(deltas) :
                                  /\ deltas[i].name \in ContractTables
                                  /\ \E j \in 1..Len(deltas[i].rows) : deltas[i].rows[j].data.row = r

C17_TableId == [][C17_TableIdStep]_vars

\* a fresh snapshot packed a live contract row whose table id is no longer live: it was
\* resolved to the table-id object removed in the top undo frame
C17_Witness ==
    /\ op.name = "on_accepted_block"
    /\ op.fresh
    /\ op.chain_state_err = "none"
    /\ db["contract_table"] = Rem0
    /\ db["contract_row"] = Live0
    /\ stored_deltas(chain_state_log, op.block_num)[1].rows[1].data.table.from = "removed"

(***************************************************************************)
(* C18: for every accepted block, the trace vector written to the trace    *)
(* log is exactly the sequence, in block transaction order, of the         *)
(* buffered traces whose transaction id appears in the block and that      *)
(* carry a receipt; transactions with no buffered trace are skipped, and a *)
(* trace delivered by applied_transaction without a receipt is never       *)
(* stored in the buffer and never written.                                 *)
(***************************************************************************)
expected_traces(buffer, trxs) ==
    LET kept == SelectSeq(trxs, LAMBDA id : id \in DOMAIN buffer /\ buffer[id].receipt)
    IN  [i \in 1..Len(kept) |-> buffer[kept[i]]]

C18_TraceVectorStep ==
    /\ \A id \in DOMAIN traces' : traces'[id].receipt /\ traces'[id].id = id
    /\ (op'.name = "on_applied_transaction" /\ ~op'.trace.receipt) => traces' = traces
    /\ (op'.name = "on_accepted_block" /\ op'.traces_err = "none") =>
           LET stored == Tail(get_data(trace_log', op'.block_num).value)
           IN  /\ stored = expected_traces(traces, op'.trxs)
               /\ \A i \in 1..Len(stored) : stored[i].receipt

C18_TraceVector == [][C18_TraceVectorStep]_vars

\* the block holds t2 before t1 and both were buffered: the entry holds their traces in
\* that order
C18_Witness ==
    /\ op.name = "on_accepted_block"
    /\ op.traces_err = "none"
    /\ op.trxs = <<"t2", "t1">>
    /\ op.block_num = 1
    /\ get_data(trace_log, 1).value =
           <<2, [id |-> "t2", receipt |-> TRUE], [id |-> "t1", receipt |-> TRUE]>>

(***************************************************************************)
(* C21: whenever the chain-state log is non-empty, the entry stored at     *)
(* begin_block is a fresh full snapshot (written with fresh = true), for   *)
(* any sequence of accepted blocks, also a reorg that rewrites the block   *)
(* at begin_block; a delta-only entry is never the first entry of the log. *)
(***************************************************************************)
\* the last step stored the entry that is now the first of the chain-state log
StoredFirstEntry ==
    /\ op.name = "on_accepted_block"
    /\ op.chain_state_err = "none"
    /\ Len(chain_state_log.entries) = 1
    /\ begin_block(chain_state_log) = op.block_num

C21_FirstEntryIsSnapshot == StoredFirstEntry => op.fresh

====
